---------------------------- MODULE Spec2Model ----------------------------
(***************************************************************************)
(* Model of src/app.py: the dizziness differential-diagnosis dashboard.    *)
(*                                                                         *)
(* Conventions                                                             *)
(*  - A Python dict is a sequence of <<key, value>> pairs in insertion     *)
(*    order (Python dicts keep insertion order; assigning an existing key  *)
(*    keeps its position).                                                 *)
(*  - A Python number is the pair <<numerator, denominator>>: F(45) is 45, *)
(*    <<1, 2>> is 0.5, and NaN (numpy's np.nan) is <<0, 0>>.  1 and 1.0    *)
(*    are the same number, as they compare equal in Python.                *)
(*  - A probability returned by predict_proba is an integer percentage.    *)
(*  - The Korean option labels of the select boxes are written in ASCII:   *)
(*    the correspondence is given beside each option table.                *)
(***************************************************************************)
EXTENDS Integers, Sequences, FiniteSets, TLC

VARIABLES
    cache,          \* st.cache_resource entry of load_models: the value and
                    \* the page elements recorded while the function ran
    fetched,        \* labels whose artifact download was started, in order
    pc,             \* position of the running script (one rerun of main)
    models,         \* main's local `models`
    screen,         \* elements rendered by the current rerun, in order
    answers,        \* the widget state the user has set in the sidebar
    inputs,         \* main's local `inputs`
    input_data,     \* main's local `input_data`
    scoring,        \* what each model's predict_proba does on input_df
    probabilities,  \* main's local `probabilities`
    top,            \* main's locals (top_disease, top_prob)
    figs,           \* main's locals (fig_waterfall, fig_bar)
    predict_button, \* whether this rerun was triggered by the predict button
    reruns,         \* number of reruns of the script started in this process
    shap_model,     \* the model main passes to generate_shap_plot
    shap_pc,        \* position inside generate_shap_plot's attribution code
    attribution,    \* what the explainer computes for the model and the row
    shap_values,    \* generate_shap_plot's local `shap_values`
    expected_value, \* explainer.expected_value
    sv,             \* generate_shap_plot's local `sv`
    base_value,     \* generate_shap_plot's local `base_value`
    ranking         \* generate_shap_plot's locals derived from sv

\* the locals of generate_shap_plot's attribution code
shapvars == <<shap_pc, attribution, shap_values, expected_value, sv, base_value,
              ranking>>

vars == <<cache, fetched, pc, models, screen, answers, inputs, input_data,
          scoring, probabilities, top, figs, predict_button, reruns,
          shap_model, shapvars>>

-----------------------------------------------------------------------------
(* Numbers *)

F(n) == <<n, 1>>

NaN == <<0, 0>>

\* float(b) of a bool b
Float(b) == IF b THEN F(1) ELSE F(0)

-----------------------------------------------------------------------------
(* Python dicts *)

Keys(d) == [i \in 1..Len(d) |-> d[i][1]]

KeySet(d) == {d[i][1] : i \in 1..Len(d)}

\* k in d
DictHas(d, k) == k \in KeySet(d)

\* d.get(k, default)
DictGet(d, k, default) ==
    IF DictHas(d, k)
    THEN d[CHOOSE i \in 1..Len(d) : d[i][1] = k][2]
    ELSE default

\* d[k] = v
DictSet(d, k, v) ==
    IF DictHas(d, k)
    THEN [i \in 1..Len(d) |-> IF d[i][1] = k THEN <<k, v>> ELSE d[i]]
    ELSE Append(d, <<k, v>>)

\* a run of assignments d[k] = v, in order: a key already in d keeps its
\* position and takes the last value assigned to it; the other keys are
\* appended in the order of their first assignment
SetAll(d, assigns) ==
    LET m == Len(assigns)
        Assigned(k) == \E j \in 1..m : assigns[j][1] = k
        LastValue(k) ==
            assigns[CHOOSE j \in 1..m :
                        /\ assigns[j][1] = k
                        /\ \A j2 \in (j + 1)..m : assigns[j2][1] # k][2]
        IsFresh(j) ==
            /\ ~DictHas(d, assigns[j][1])
            /\ \A j2 \in 1..(j - 1) : assigns[j2][1] # assigns[j][1]
        fresh == SelectSeq([j \in 1..m |-> j], IsFresh)
    IN  [i \in 1..Len(d) |->
            IF Assigned(d[i][1]) THEN <<d[i][1], LastValue(d[i][1])>> ELSE d[i]]
        \o [r \in 1..Len(fresh) |->
            <<assigns[fresh[r]][1], LastValue(assigns[fresh[r]][1])>>]

-----------------------------------------------------------------------------
(* Feature schema and labels *)

FILE_IDS == <<"BPPV", "VN", "SSNHL", "Meniere", "Others">>

INPUT_FEATURES == <<
    "symptoms_frequency", "symptoms_recurrence", "symptom_recent",
    "symptom_remote_cat", "symptom_remote_cat_is_1st_attack",
    "symptom_remote_cat_is_within_30days", "symptom_remote_cat_is_within_1years",
    "symptom_remote_cat_is_over_1year", "symptoms_true_vertigo",
    "symptoms_dizziness_duration_ongoing", "symptoms_duration_minutes",
    "symptoms_duration_minutes_cat_gen", "symptoms_duration_minutes_cat_gen_is_several_sec",
    "symptoms_duration_minutes_cat_gen_is_several_min", "symptoms_duration_minutes_cat_gen_is_several_hours",
    "symptoms_duration_minutes_cat_gen_is_several_days", "symptoms_duration_minutes_cat_20m",
    "symptoms_duration_minutes_cat_20m_is_several_sec", "symptoms_duration_minutes_cat_20m_is_several_min",
    "symptoms_duration_minutes_cat_20m_is_several_hours", "symptoms_duration_minutes_cat_20m_is_several_days",
    "symptoms_nausea", "symptoms_vomiting", "symptoms_headache", "symptoms_black_out",
    "symptoms_agg_factor_position_change", "symptoms_agg_factor_head_rotation",
    "symptoms_agg_factor_eyes_moving", "symptoms_agg_factor_moving",
    "symptoms_agg_factor_no_moving", "symptoms_agg_factor_position_change_combined",
    "symptoms_rel_factor_rest", "symptoms_rel_factor_eyes_closed",
    "symptoms_hearing_impairment_combined", "symptoms_tinnitus", "symptoms_ear_fullness",
    "history_dm", "history_htn", "history_pul_tbc", "history_asthma",
    "history_kidney", "history_entop", "history_trauma", "history_ear_disease",
    "history_neckop", "history_brain_disease", "history_metabolic_disease",
    "history_coronary_disease", "history_stomach", "history_bph", "history_gynecologic",
    "history_eye_disease", "history_psychiatric", "history_thyroid_disease",
    "history_pci", "history_abdominalop", "history_respiratory_disease",
    "history_orthopedicop", "history_ra", "history_autoimmune_disease",
    "etc_sn_right", "etc_sn_left", "etc_gaze_right", "etc_gaze_left",
    "etc_dht_right", "etc_dht_left", "etc_rht_right", "etc_rht_left",
    "etc_gn_right", "etc_gn_left", "etc_hit_right", "etc_hit_left",
    "etc_hsn_right", "etc_hsn_left", "etc_htt_right", "etc_htt_left",
    "etc_skew_deviation_right", "etc_skew_deviation_left",
    "etc_weber_right", "etc_weber_left", "age", "sex" >>

-----------------------------------------------------------------------------
(* The sidebar form: create_sidebar_inputs *)

\* st.checkbox(..., key=k): whether the box with widget key k is ticked
Checkbox(ans, k) == Float(k \in ans.checked)

\* "1회", "2-3회", "4-5회", "6-10회", "10회 이상"
frequency_options ==
    ("1" :> 1) @@ ("2-3" :> 2) @@ ("4-5" :> 3) @@ ("6-10" :> 4) @@ ("10+" :> 5)

\* "수 초", "수 분", "수 시간", "수 일"
duration_cat_options ==
    ("several_sec" :> 1) @@ ("several_min" :> 2) @@ ("several_hours" :> 3)
        @@ ("several_days" :> 4)

duration_minutes_map ==
    ("several_sec" :> <<1, 2>>) @@ ("several_min" :> F(5))
        @@ ("several_hours" :> F(120)) @@ ("several_days" :> F(1440))

\* "첫 발작", "30일 이내", "1년 이내", "1년 이상"
remote_cat_options ==
    ("1st_attack" :> 0) @@ ("within_30days" :> 1) @@ ("within_1years" :> 2)
        @@ ("over_1year" :> 3)

\* sex_option is one of "female" ("여성"), "male" ("남성")
BasicInfo(ans) == <<
    <<"patient_name", ans.patient_name>>,
    <<"age", F(ans.age)>>,
    <<"sex", IF ans.sex = "female" THEN F(1) ELSE F(0)>> >>

DizzinessCharacter(ans) == <<
    <<"symptoms_true_vertigo", Checkbox(ans, "true_vertigo")>>,
    <<"symptoms_dizziness_duration_ongoing", Checkbox(ans, "ongoing")>>,
    <<"symptom_recent", F(ans.recent)>>,
    <<"symptoms_frequency", F(frequency_options[ans.frequency])>>,
    <<"symptoms_recurrence", Checkbox(ans, "recurrence")>> >>

\* faulty variant: the several_min indicator tests the several_hours option
DurationCategory_Swapped(duration_selected) == <<
    <<"symptoms_duration_minutes_cat_gen", F(duration_cat_options[duration_selected])>>,
    <<"symptoms_duration_minutes_cat_gen_is_several_sec",
        IF duration_selected = "several_sec" THEN F(1) ELSE F(0)>>,
    <<"symptoms_duration_minutes_cat_gen_is_several_min",
        IF duration_selected = "several_hours" THEN F(1) ELSE F(0)>>,
    <<"symptoms_duration_minutes_cat_gen_is_several_hours",
        IF duration_selected = "several_hours" THEN F(1) ELSE F(0)>>,
    <<"symptoms_duration_minutes_cat_gen_is_several_days",
        IF duration_selected = "several_days" THEN F(1) ELSE F(0)>> >>

DurationCategory(duration_selected) == <<
    <<"symptoms_duration_minutes_cat_gen", F(duration_cat_options[duration_selected])>>,
    <<"symptoms_duration_minutes_cat_gen_is_several_sec",
        IF duration_selected = "several_sec" THEN F(1) ELSE F(0)>>,
    <<"symptoms_duration_minutes_cat_gen_is_several_min",
        IF duration_selected = "several_min" THEN F(1) ELSE F(0)>>,
    <<"symptoms_duration_minutes_cat_gen_is_several_hours",
        IF duration_selected = "several_hours" THEN F(1) ELSE F(0)>>,
    <<"symptoms_duration_minutes_cat_gen_is_several_days",
        IF duration_selected = "several_days" THEN F(1) ELSE F(0)>> >>

\* the cat_20m copies read the cat_gen entries already stored in inputs
DurationAliases(d) == <<
    <<"symptoms_duration_minutes_cat_20m",
        DictGet(d, "symptoms_duration_minutes_cat_gen", NaN)>>,
    <<"symptoms_duration_minutes_cat_20m_is_several_sec",
        DictGet(d, "symptoms_duration_minutes_cat_gen_is_several_sec", NaN)>>,
    <<"symptoms_duration_minutes_cat_20m_is_several_min",
        DictGet(d, "symptoms_duration_minutes_cat_gen_is_several_min", NaN)>>,
    <<"symptoms_duration_minutes_cat_20m_is_several_hours",
        DictGet(d, "symptoms_duration_minutes_cat_gen_is_several_hours", NaN)>>,
    <<"symptoms_duration_minutes_cat_20m_is_several_days",
        DictGet(d, "symptoms_duration_minutes_cat_gen_is_several_days", NaN)>> >>

DurationMinutes(duration_selected) == <<
    <<"symptoms_duration_minutes", duration_minutes_map[duration_selected]>> >>

RemoteCategory(remote_selected) == <<
    <<"symptom_remote_cat", F(remote_cat_options[remote_selected])>>,
    <<"symptom_remote_cat_is_1st_attack",
        IF remote_selected = "1st_attack" THEN F(1) ELSE F(0)>>,
    <<"symptom_remote_cat_is_within_30days",
        IF remote_selected = "within_30days" THEN F(1) ELSE F(0)>>,
    <<"symptom_remote_cat_is_within_1years",
        IF remote_selected = "within_1years" THEN F(1) ELSE F(0)>>,
    <<"symptom_remote_cat_is_over_1year",
        IF remote_selected = "over_1year" THEN F(1) ELSE F(0)>> >>

AccompanyingSymptoms(ans) == <<
    <<"symptoms_nausea", Checkbox(ans, "nausea")>>,
    <<"symptoms_vomiting", Checkbox(ans, "vomiting")>>,
    <<"symptoms_headache", Checkbox(ans, "headache")>>,
    <<"symptoms_black_out", Checkbox(ans, "blackout")>> >>

OtologicSymptoms(ans) == <<
    <<"symptoms_hearing_impairment_combined", Checkbox(ans, "hearing")>>,
    <<"symptoms_tinnitus", Checkbox(ans, "tinnitus")>>,
    <<"symptoms_ear_fullness", Checkbox(ans, "ear_fullness")>> >>

AggravatingFactors(ans) == <<
    <<"symptoms_agg_factor_position_change", Checkbox(ans, "agg_position")>>,
    <<"symptoms_agg_factor_head_rotation", Checkbox(ans, "agg_head")>>,
    <<"symptoms_agg_factor_eyes_moving", Checkbox(ans, "agg_eyes")>>,
    <<"symptoms_agg_factor_moving", Checkbox(ans, "agg_moving")>>,
    <<"symptoms_agg_factor_no_moving", Checkbox(ans, "agg_no_moving")>> >>

\* faulty variant: the combined flag mirrors the head-rotation checkbox
PositionChangeCombined_HeadRotation(d) == <<
    <<"symptoms_agg_factor_position_change_combined",
        DictGet(d, "symptoms_agg_factor_head_rotation", NaN)>> >>

\* the combined flag reads the position_change entry already stored in inputs
PositionChangeCombined(d) == <<
    <<"symptoms_agg_factor_position_change_combined",
        DictGet(d, "symptoms_agg_factor_position_change", NaN)>> >>

RelievingFactors(ans) == <<
    <<"symptoms_rel_factor_rest", Checkbox(ans, "rel_rest")>>,
    <<"symptoms_rel_factor_eyes_closed", Checkbox(ans, "rel_eyes")>> >>

History(ans) == <<
    <<"history_dm", Checkbox(ans, "hist_dm")>>,
    <<"history_htn", Checkbox(ans, "hist_htn")>>,
    <<"history_ear_disease", Checkbox(ans, "hist_ear")>>,
    <<"history_brain_disease", Checkbox(ans, "hist_brain")>>,
    <<"history_thyroid_disease", Checkbox(ans, "hist_thyroid")>>,
    <<"history_psychiatric", Checkbox(ans, "hist_psych")>>,
    <<"history_coronary_disease", Checkbox(ans, "hist_coronary")>>,
    <<"history_trauma", Checkbox(ans, "hist_trauma")>>,
    <<"history_entop", Checkbox(ans, "hist_entop")>>,
    <<"history_metabolic_disease", Checkbox(ans, "hist_metabolic")>>,
    <<"history_autoimmune_disease", Checkbox(ans, "hist_autoimmune")>>,
    <<"history_respiratory_disease", Checkbox(ans, "hist_respiratory")>> >>

other_history == <<
    "history_pul_tbc", "history_asthma", "history_kidney", "history_neckop",
    "history_stomach", "history_bph", "history_gynecologic", "history_eye_disease",
    "history_pci", "history_abdominalop", "history_orthopedicop", "history_ra" >>

PhysicalExam(ans) == <<
    <<"etc_sn_right", Checkbox(ans, "sn_r")>>,
    <<"etc_gaze_right", Checkbox(ans, "gaze_r")>>,
    <<"etc_dht_right", Checkbox(ans, "dht_r")>>,
    <<"etc_rht_right", Checkbox(ans, "rht_r")>>,
    <<"etc_sn_left", Checkbox(ans, "sn_l")>>,
    <<"etc_gaze_left", Checkbox(ans, "gaze_l")>>,
    <<"etc_dht_left", Checkbox(ans, "dht_l")>>,
    <<"etc_rht_left", Checkbox(ans, "rht_l")>>,
    <<"etc_hit_right", Checkbox(ans, "hit_r")>>,
    <<"etc_hsn_right", Checkbox(ans, "hsn_r")>>,
    <<"etc_htt_right", Checkbox(ans, "htt_r")>>,
    <<"etc_hit_left", Checkbox(ans, "hit_l")>>,
    <<"etc_hsn_left", Checkbox(ans, "hsn_l")>>,
    <<"etc_htt_left", Checkbox(ans, "htt_l")>> >>

other_etc == <<
    "etc_gn_right", "etc_gn_left", "etc_skew_deviation_right",
    "etc_skew_deviation_left", "etc_weber_right", "etc_weber_left" >>

\* for k in keys: if k not in d: d[k] = 0.0
FillAbsent(d, keys) ==
    SetAll(d, [i \in 1..Len(keys) |->
                <<keys[i], DictGet(d, keys[i], F(0))>>])

create_sidebar_inputs(ans) ==
    LET d1 == SetAll(<<>>, BasicInfo(ans))
        d2 == SetAll(d1, DizzinessCharacter(ans))
        d3 == SetAll(d2, DurationCategory(ans.duration))
        d4 == SetAll(d3, DurationAliases(d3))
        d5 == SetAll(d4, DurationMinutes(ans.duration))
        d6 == SetAll(d5, RemoteCategory(ans.remote))
        d7 == SetAll(d6, AccompanyingSymptoms(ans))
        d8 == SetAll(d7, OtologicSymptoms(ans))
        d9 == SetAll(d8, AggravatingFactors(ans))
        d10 == SetAll(d9, PositionChangeCombined(d9))
        d11 == SetAll(d10, RelievingFactors(ans))
        d12 == SetAll(d11, History(ans))
        d13 == FillAbsent(d12, other_history)
        d14 == SetAll(d13, PhysicalExam(ans))
    IN  FillAbsent(d14, other_etc)

\* faulty variant: the answers are passed on as collected, without being
\* reindexed to the schema
BuildInputData_NotReindexed(inp) == inp

\* {feat: inputs.get(feat, np.nan) for feat in INPUT_FEATURES}
BuildInputData(inp) ==
    SetAll(<<>>, [i \in 1..Len(INPUT_FEATURES) |->
                    <<INPUT_FEATURES[i], DictGet(inp, INPUT_FEATURES[i], NaN)>>])

-----------------------------------------------------------------------------
(* Model repository: get_google_drive_service, download_file_from_drive,   *)
(* load_models                                                             *)

\* Python's None, and a dict, as the value of `models`
None == [none |-> TRUE, items |-> <<>>]

Dict(items) == [none |-> FALSE, items |-> items]

\* the object joblib.load returns for the artifact of label `name`
Model(name) == [label |-> name]

\* an element rendered on the page: <<kind, label, number>>
Element(kind, label, n) == <<kind, label, n>>

AuthOutcomes == {"authenticated", "authentication_failure"}

ArtifactOutcomes == {"success", "download_failure", "deserialization_failure"}

\* returns the service, or None after reporting the authentication error
get_google_drive_service(auth) ==
    IF auth = "authenticated"
    THEN [service |-> "service", errors |-> <<>>]
    ELSE [service |-> "None", errors |-> <<Element("error", "drive_auth", 0)>>]

\* returns True, or False after reporting the download error
download_file_from_drive(outcome) ==
    IF outcome = "download_failure"
    THEN [ok |-> FALSE, errors |-> <<Element("error", "file_download", 0)>>]
    ELSE [ok |-> TRUE, errors |-> <<>>]

\* faulty variant: an artifact that fails is skipped and the loop goes on
RECURSIVE LoadLoop_SkipFailed(_, _, _, _, _)
LoadLoop_SkipFailed(i, outcome, mdl, errs, fet) ==
    IF i > Len(FILE_IDS)
    THEN [value |-> Dict(mdl), errors |-> errs, fetched |-> fet]
    ELSE LET name == FILE_IDS[i]
         IN  IF outcome[name] = "success"
             THEN LoadLoop_SkipFailed(i + 1, outcome,
                                      DictSet(mdl, name, Model(name)), errs,
                                      Append(fet, name))
             ELSE LoadLoop_SkipFailed(i + 1, outcome, mdl,
                                      Append(errs, Element("error", "model_load", i)),
                                      Append(fet, name))

\* the loop over FILE_IDS.items() from its i-th item on, `mdl` being the local
\* dict built so far; every exit of the loop is a return of load_models
RECURSIVE LoadLoop(_, _, _, _, _)
LoadLoop(i, outcome, mdl, errs, fet) ==
    IF i > Len(FILE_IDS)
    THEN [value |-> Dict(mdl), errors |-> errs, fetched |-> fet]
    ELSE LET name == FILE_IDS[i]
             dl == download_file_from_drive(outcome[name])
         IN  IF ~dl.ok
             THEN [value |-> None,
                   errors |-> errs \o dl.errors
                                \o <<Element("error", "model_download_failed", i)>>,
                   fetched |-> Append(fet, name)]
             ELSE IF outcome[name] = "deserialization_failure"
             THEN [value |-> None,
                   errors |-> errs \o <<Element("error", "model_load", i)>>,
                   fetched |-> Append(fet, name)]
             ELSE LoadLoop(i + 1, outcome, DictSet(mdl, name, Model(name)),
                           errs, Append(fet, name))

load_models(auth, outcome) ==
    LET svc == get_google_drive_service(auth)
    IN  IF svc.service = "None"
        THEN [value |-> None, errors |-> svc.errors, fetched |-> <<>>]
        ELSE LoadLoop(1, outcome, <<>>, <<>>, <<>>)

-----------------------------------------------------------------------------
(* Prediction engine: predict_all_models, get_top_prediction *)

\* the probabilities a model may return, in percent
Probs == {0, 20, 71}

\* what model.predict_proba(input_df) does: raise, or return a probability
ScoringOutcomes ==
    {[raises |-> TRUE, prob |-> 0]} \cup {[raises |-> FALSE, prob |-> p] : p \in Probs}

\* faulty variant: the first scoring failure ends the loop
RECURSIVE PredictLoop_AbortOnError(_, _, _, _, _)
PredictLoop_AbortOnError(i, items, sc, probs, errs) ==
    IF i > Len(items)
    THEN [probabilities |-> probs, errors |-> errs]
    ELSE LET name == items[i][1]
         IN  IF sc[name].raises
             THEN [probabilities |-> DictSet(probs, name, 0),
                   errors |-> Append(errs, Element("error", "model_predict", i))]
             ELSE PredictLoop_AbortOnError(i + 1, items, sc,
                                           DictSet(probs, name, sc[name].prob), errs)

\* the loop over models.items() from the i-th item on
RECURSIVE PredictLoop(_, _, _, _, _)
PredictLoop(i, items, sc, probs, errs) ==
    IF i > Len(items)
    THEN [probabilities |-> probs, errors |-> errs]
    ELSE LET name == items[i][1]
         IN  IF sc[name].raises
             THEN PredictLoop(i + 1, items, sc, DictSet(probs, name, 0),
                              Append(errs, Element("error", "model_predict", i)))
             ELSE PredictLoop(i + 1, items, sc, DictSet(probs, name, sc[name].prob),
                              errs)

predict_all_models(mdls, sc) == PredictLoop(1, mdls.items, sc, <<>>, <<>>)

\* faulty variant: the scan keeps the minimum
RECURSIVE MaxScan_Min(_, _, _)
MaxScan_Min(d, i, best) ==
    IF i > Len(d) THEN best
    ELSE MaxScan_Min(d, i + 1, IF d[i][2] < d[best][2] THEN i ELSE best)

\* faulty variant: a later entry equal to the best replaces it (last maximum)
RECURSIVE MaxScan_LastMax(_, _, _)
MaxScan_LastMax(d, i, best) ==
    IF i > Len(d) THEN best
    ELSE MaxScan_LastMax(d, i + 1, IF d[i][2] >= d[best][2] THEN i ELSE best)

\* max(probabilities, key=probabilities.get): the scan keeps the first maximum
RECURSIVE MaxScan(_, _, _)
MaxScan(d, i, best) ==
    IF i > Len(d) THEN best
    ELSE MaxScan(d, i + 1, IF d[i][2] > d[best][2] THEN i ELSE best)

get_top_prediction(probs) ==
    LET b == MaxScan(probs, 2, 1)
    IN  [disease |-> probs[b][1], prob |-> probs[b][2]]

\* sorted(probabilities.items(), key=lambda x: x[1], reverse=True): stable
RECURSIVE InsertDesc(_, _)
InsertDesc(sorted, item) ==
    IF sorted = <<>> THEN <<item>>
    ELSE IF item[2] > sorted[1][2] THEN <<item>> \o sorted
    ELSE <<sorted[1]>> \o InsertDesc(Tail(sorted), item)

RECURSIVE SortedProbs(_)
SortedProbs(d) ==
    IF d = <<>> THEN <<>>
    ELSE InsertDesc(SortedProbs(SubSeq(d, 1, Len(d) - 1)), d[Len(d)])

-----------------------------------------------------------------------------
(* Explanation engine: generate_shap_plot *)

ShapOutcomes == {"computed", "raises"}

\* faulty variant: the failure is swallowed without being reported
generate_shap_plot_Silent(outcome) ==
    IF outcome = "raises"
    THEN [fig_waterfall |-> "None", fig_bar |-> "None", errors |-> <<>>]
    ELSE [fig_waterfall |-> "fig_waterfall", fig_bar |-> "fig_bar",
          errors |-> <<>>]

\* (fig_waterfall, fig_bar), or (None, None) after reporting the error
generate_shap_plot(outcome) ==
    IF outcome = "raises"
    THEN [fig_waterfall |-> "None", fig_bar |-> "None",
          errors |-> <<Element("error", "shap", 0)>>]
    ELSE [fig_waterfall |-> "fig_waterfall", fig_bar |-> "fig_bar",
          errors |-> <<>>]


\* no model: main has not called generate_shap_plot in this rerun
NoModel == Model("")

\* bound on the shift of the attribution patterns explored
MaxShift == 2

\* the magnitudes explored, one per feature: (i * a + b) % 83 gives the 82
\* features distinct magnitudes in 0..82; 72..74 are then made equal (three
\* features tied across the tenth place) and 62..63 (two features tied across
\* the twentieth place)
AttributionMagnitude(i, a, b) ==
    LET m == (i * a + b) % 83
    IN  IF m \in 72..74 THEN 73
        ELSE IF m \in 62..63 THEN 62
        ELSE m

\* the attribution rows explored, one value per feature (in thousandths of the
\* raw score), negative for the odd features
AttributionRow(a, b) ==
    [i \in 1..Len(INPUT_FEATURES) |->
        IF i % 2 = 1 THEN 0 - AttributionMagnitude(i, a, b)
        ELSE AttributionMagnitude(i, a, b)]

\* what the explainer computes: the positive-class attribution row of the one
\* input row, the positive-class baseline, and the shape it is returned in
Attributions ==
    {[row |-> AttributionRow(a, b), baseline |-> base, as_list |-> l] :
        a \in {1, 3, 7}, b \in 0..MaxShift,
        base \in {-3, 4}, l \in BOOLEAN}

Negated(row) == [i \in 1..Len(row) |-> 0 - row[i]]

\* explainer.shap_values(input_df) for a one-row input: a list of the
\* negative-class and positive-class arrays, or one array; an array has one
\* row per input row
ExplainerShapValues(att) ==
    IF att.as_list
    THEN [is_list |-> TRUE, value |-> << <<Negated(att.row)>>, <<att.row>> >>]
    ELSE [is_list |-> FALSE, value |-> <<att.row>>]

\* explainer.expected_value: one baseline per class, or one baseline
ExplainerExpectedValue(att) ==
    IF att.as_list THEN <<0 - att.baseline, att.baseline>> ELSE att.baseline

\* faulty variant: the first (negative-class) array and baseline are taken
SelectAttribution_FirstClass(shv, ev) ==
    IF shv.is_list
    THEN [sv |-> shv.value[1][1], base_value |-> ev[1]]
    ELSE [sv |-> shv.value[1], base_value |-> ev]

\* if isinstance(shap_values, list): sv = shap_values[1][0];
\*     base_value = explainer.expected_value[1]
\* else: sv = shap_values[0]; base_value = explainer.expected_value
SelectAttribution(shv, ev) ==
    IF shv.is_list
    THEN [sv |-> shv.value[2][1], base_value |-> ev[2]]
    ELSE [sv |-> shv.value[1], base_value |-> ev]

Abs(x) == IF x < 0 THEN 0 - x ELSE x

\* np.abs(sv)
AbsAll(values) == [i \in 1..Len(values) |-> Abs(values[i])]

\* np.sum(sv)
SumSeq(values) ==
    LET partial[i \in 0..Len(values)] ==
            IF i = 0 THEN 0 ELSE partial[i - 1] + values[i]
    IN  partial[Len(values)]

\* the indices whose key is shared with another index
Tied(keys) ==
    {i \in 1..Len(keys) : \E j \in 1..Len(keys) : j # i /\ keys[j] = keys[i]}

\* the indices holding the same key as index i
TieGroup(keys, i) == {j \in 1..Len(keys) : keys[j] = keys[i]}

\* the order in which np.argsort leaves equal keys is not specified (its
\* default sort is not stable): any order of the indices of each group of
\* equal keys can come out. An order gives every tied index its place in its
\* group.
TieBreaks(keys) ==
    LET tied == Tied(keys)
        size == [i \in tied |-> Cardinality(TieGroup(keys, i))]
        largest == IF tied = {} THEN 0
                   ELSE CHOOSE c \in {size[i] : i \in tied} :
                            \A i \in tied : size[i] <= c
    IN  {tie \in [tied -> 1..largest] :
            /\ \A i \in tied : tie[i] <= size[i]
            /\ \A i, j \in tied :
                  (i # j /\ keys[i] = keys[j]) => tie[i] # tie[j]}

\* index j is placed before index i: smaller key first, equal keys by their
\* places in the tie order
SortsBefore(keys, tie, j, i) ==
    \/ keys[j] < keys[i]
    \/ /\ keys[j] = keys[i]
       /\ j # i
       /\ tie[j] < tie[i]

\* np.argsort(keys): the indices (from 1) in ascending order of their keys;
\* position[i] is the place of index i in that order
Argsort(keys, tie) ==
    LET n == Len(keys)
        position ==
            SubSeq([i \in 1..n |->
                       Cardinality({j \in 1..n : SortsBefore(keys, tie, j, i)}) + 1],
                   1, n)
    IN  [r \in 1..n |-> CHOOSE i \in 1..n : position[i] = r]

\* s[::-1]
Reversed(s) == [r \in 1..Len(s) |-> s[Len(s) + 1 - r]]

\* s[:k]
Take(s, k) == SubSeq(s, 1, IF k < Len(s) THEN k ELSE Len(s))

\* faulty variant: the order is not reversed, the smallest magnitudes come first
TopIndices_Ascending(values, k, tie) == Take(Argsort(AbsAll(values), tie), k)

\* np.argsort(np.abs(sv))[::-1][:k]
TopIndices(values, k, tie) == Take(Reversed(Argsort(AbsAll(values), tie)), k)

\* a[idx] for a sequence idx of indices
AtIndices(a, idx) == [r \in 1..Len(idx) |-> a[idx[r]]]

\* the locals generate_shap_plot derives from sv: the signed top 10 of the
\* waterfall chart and the top 20 magnitudes of the bar chart
Rankings(values, base, feature_names, data, tie) ==
    LET sorted_idx == TopIndices(values, 10, tie)
        sorted_idx_20 == TopIndices(values, 20, tie)
    IN  [sorted_idx |-> sorted_idx,
         top_features |-> AtIndices(feature_names, sorted_idx),
         top_values |-> AtIndices(values, sorted_idx),
         top_data |-> AtIndices(data, sorted_idx),
         f_x |-> base + SumSeq(values),
         sorted_idx_20 |-> sorted_idx_20,
         top_features_20 |-> AtIndices(feature_names, sorted_idx_20),
         abs_values_20 |-> AbsAll(AtIndices(values, sorted_idx_20))]

NoAttribution == [row |-> <<>>, baseline |-> 0, as_list |-> FALSE]

NoShapValues == [is_list |-> FALSE, value |-> <<>>]

NoRanking ==
    [sorted_idx |-> <<>>, top_features |-> <<>>, top_values |-> <<>>,
     top_data |-> <<>>, f_x |-> 0, sorted_idx_20 |-> <<>>,
     top_features_20 |-> <<>>, abs_values_20 |-> <<>>]

\* generate_shap_plot is not running
ShapIdle ==
    /\ shap_pc = "idle"
    /\ attribution = NoAttribution
    /\ shap_values = NoShapValues
    /\ expected_value = 0
    /\ sv = <<>>
    /\ base_value = 0
    /\ ranking = NoRanking

-----------------------------------------------------------------------------
(* Widget state *)

CheckboxKeys == {
    "true_vertigo", "ongoing", "recurrence",
    "nausea", "vomiting", "headache", "blackout",
    "hearing", "tinnitus", "ear_fullness",
    "agg_position", "agg_head", "agg_eyes", "agg_moving", "agg_no_moving",
    "rel_rest", "rel_eyes",
    "hist_dm", "hist_htn", "hist_ear", "hist_brain", "hist_thyroid", "hist_psych",
    "hist_coronary", "hist_trauma", "hist_entop", "hist_metabolic",
    "hist_autoimmune", "hist_respiratory",
    "sn_r", "gaze_r", "dht_r", "rht_r", "sn_l", "gaze_l", "dht_l", "rht_l",
    "hit_r", "hsn_r", "htt_r", "hit_l", "hsn_l", "htt_l" }

\* the widgets' initial values: value="" / value=50 / value=1, the first
\* option of each select box, every checkbox unticked
DefaultAnswers ==
    [patient_name |-> "", age |-> 50, sex |-> "female", recent |-> 1,
     frequency |-> "1", duration |-> "several_sec", remote |-> "1st_attack",
     checked |-> {}]

ScenarioAnswers ==
    [patient_name |-> "", age |-> 45, sex |-> "female", recent |-> 1,
     frequency |-> "1", duration |-> "several_min", remote |-> "1st_attack",
     checked |-> {"true_vertigo", "recurrence"}]

EverythingAnswers ==
    [patient_name |-> "Kim", age |-> 100, sex |-> "male", recent |-> 180,
     frequency |-> "10+", duration |-> "several_days", remote |-> "over_1year",
     checked |-> CheckboxKeys]

\* the widget states explored by the full pipeline
PipelineAnswers == {DefaultAnswers, ScenarioAnswers, EverythingAnswers}

\* the widget states explored for the form alone: every combination of the
\* select-box choices, with the text and number entries at either end of their
\* range and no box or every box ticked; and, at the default choices, each
\* single box ticked
TextAndNumberEntries ==
    {[patient_name |-> "", age |-> 10, recent |-> 0],
     [patient_name |-> "Kim", age |-> 100, recent |-> 180]}

FormAnswers ==
    {[patient_name |-> e.patient_name, age |-> e.age, sex |-> s,
      recent |-> e.recent, frequency |-> f, duration |-> du, remote |-> r,
      checked |-> c] :
        e \in TextAndNumberEntries, s \in {"female", "male"},
        f \in DOMAIN frequency_options, du \in DOMAIN duration_cat_options,
        r \in DOMAIN remote_cat_options, c \in {{}, CheckboxKeys}}
    \cup {[DefaultAnswers EXCEPT !.checked = {k}] : k \in CheckboxKeys}
    \cup PipelineAnswers

-----------------------------------------------------------------------------
(* The script: main *)

\* bound on the number of reruns of the script in one process
MaxReruns == 2

\* bound on the runs that are ended inside load_models: only the first
\* MaxInterruptedLoads runs of the process can be
MaxInterruptedLoads == 1

Labels == {FILE_IDS[i] : i \in 1..Len(FILE_IDS)}

NoScoring == [n \in Labels |-> [raises |-> FALSE, prob |-> 0]]

NoTop == [disease |-> "", prob |-> 0]

NoFigs == [fig_waterfall |-> "None", fig_bar |-> "None"]

\* faulty variant: load_models without its cache decorator
CacheHit_Never == FALSE

\* @st.cache_resource: whether the call of load_models is served from the cache
CacheHit == cache.filled

Init ==
    /\ cache = [filled |-> FALSE, value |-> None, elements |-> <<>>]
    /\ fetched = <<>>
    /\ pc = "start"
    /\ models = None
    /\ screen = <<>>
    /\ answers = DefaultAnswers
    /\ inputs = <<>>
    /\ input_data = <<>>
    /\ scoring = NoScoring
    /\ probabilities = <<>>
    /\ top = NoTop
    /\ figs = NoFigs
    /\ predict_button = FALSE
    /\ reruns = 1
    /\ shap_model = NoModel
    /\ ShapIdle

\* models = load_models(), the function body being run (nothing cached yet)
MainLoadMiss ==
    /\ pc = "start"
    /\ ~CacheHit
    /\ \E auth \in AuthOutcomes, outcome \in [Labels -> ArtifactOutcomes] :
          LET r == load_models(auth, outcome)
          IN  /\ cache' = [filled |-> TRUE, value |-> r.value,
                            elements |-> r.errors]
              /\ fetched' = fetched \o r.fetched
              /\ models' = r.value
              /\ screen' = <<Element("title", "app", 0)>> \o r.errors
    /\ pc' = "loaded"
    /\ UNCHANGED <<answers, inputs, input_data, scoring, probabilities, top,
                   figs, predict_button, reruns,
                   shap_model, shapvars>>

\* models = load_models(), served from the cache: the function body is not
\* run, the elements it showed when it ran are shown again
MainLoadHit ==
    /\ pc = "start"
    /\ CacheHit
    /\ models' = cache.value
    /\ screen' = <<Element("title", "app", 0)>> \o cache.elements
    /\ pc' = "loaded"
    /\ UNCHANGED <<cache, fetched, answers, inputs, input_data, scoring,
                   probabilities, top, figs, predict_button, reruns,
                   shap_model, shapvars>>

\* faulty variant: the error is shown but the script is not stopped
MainStop_NoStop ==
    /\ pc = "loaded"
    /\ models = None
    /\ inputs' = create_sidebar_inputs(answers)
    /\ screen' = screen \o <<Element("error", "models_unavailable", 0),
                             Element("sidebar", "form", 0)>>
    /\ pc' = "inputs"
    /\ UNCHANGED <<cache, fetched, models, answers, input_data, scoring,
                   probabilities, top, figs, predict_button, reruns,
                   shap_model, shapvars>>

\* if models is None: st.error(...); st.stop()
MainStop ==
    /\ pc = "loaded"
    /\ models = None
    /\ screen' = Append(screen, Element("error", "models_unavailable", 0))
    /\ pc' = "stopped"
    /\ UNCHANGED <<cache, fetched, models, answers, inputs, input_data, scoring,
                   probabilities, top, figs, predict_button, reruns,
                   shap_model, shapvars>>

\* inputs = create_sidebar_inputs()
MainInputs ==
    /\ pc = "loaded"
    /\ models # None
    /\ inputs' = create_sidebar_inputs(answers)
    /\ screen' = Append(screen, Element("sidebar", "form", 0))
    /\ pc' = "inputs"
    /\ UNCHANGED <<cache, fetched, models, answers, input_data, scoring,
                   probabilities, top, figs, predict_button, reruns,
                   shap_model, shapvars>>

\* input_data = {...}; input_df = pd.DataFrame([input_data])
MainVector ==
    /\ pc = "inputs"
    /\ input_data' = BuildInputData(inputs)
    /\ pc' = "button"
    /\ UNCHANGED <<cache, fetched, models, screen, answers, inputs, scoring,
                   probabilities, top, figs, predict_button, reruns,
                   shap_model, shapvars>>

\* the else branch of `if predict_button`
MainNoPredict ==
    /\ pc = "button"
    /\ ~predict_button
    /\ screen' = screen \o <<Element("info", "fill_in_and_press", 0),
                             Element("expander", "usage", 0)>>
    /\ pc' = "done"
    /\ UNCHANGED <<cache, fetched, models, answers, inputs, input_data, scoring,
                   probabilities, top, figs, predict_button, reruns,
                   shap_model, shapvars>>

\* probabilities = predict_all_models(models, input_df)
MainPredict ==
    /\ pc = "button"
    /\ predict_button
    /\ \E sc \in [Labels -> ScoringOutcomes] :
          LET r == predict_all_models(models, sc)
          IN  /\ scoring' = sc
              /\ probabilities' = r.probabilities
              /\ screen' = screen \o r.errors
    /\ pc' = "predicted"
    /\ UNCHANGED <<cache, fetched, models, answers, inputs, input_data, top,
                   figs, predict_button, reruns,
                   shap_model, shapvars>>

\* the probability lines, in the order of sorted_probs, the top one marked
ProbabilityLines(sorted, top_disease) ==
    [i \in 1..Len(sorted) |->
        Element(IF sorted[i][1] = top_disease THEN "write_top" ELSE "write",
                sorted[i][1], sorted[i][2])]

\* top_disease, top_prob = get_top_prediction(probabilities), and the result
\* section of the page
MainTop ==
    /\ pc = "predicted"
    /\ LET t == get_top_prediction(probabilities)
       IN  /\ top' = t
           /\ screen' = screen
                \o <<Element("header", "result", 0)>>
                \o (IF DictGet(inputs, "patient_name", "") # ""
                    THEN <<Element("markdown", "patient_name", 0)>> ELSE <<>>)
                \o <<Element("success", t.disease, 0),
                     Element("metric", "top_prob", t.prob)>>
                \o ProbabilityLines(SortedProbs(probabilities), t.disease)
    /\ pc' = "results"
    /\ UNCHANGED <<cache, fetched, models, answers, inputs, input_data, scoring,
                   probabilities, figs, predict_button, reruns,
                   shap_model, shapvars>>

\* fig_waterfall, fig_bar = generate_shap_plot(models[top_disease], ...), and
\* the two charts when both figures exist
MainExplain ==
    /\ pc = "results"
    /\ \E outcome \in ShapOutcomes :
          LET r == generate_shap_plot(outcome)
          IN  /\ figs' = [fig_waterfall |-> r.fig_waterfall, fig_bar |-> r.fig_bar]
              /\ shap_model' = DictGet(models.items, top.disease, NoModel)
              /\ screen' = screen
                    \o <<Element("header", "shap", 0)>>
                    \o r.errors
                    \o (IF r.fig_waterfall # "None" /\ r.fig_bar # "None"
                        THEN <<Element("image", "fig_waterfall", 0),
                               Element("image", "fig_bar", 0)>>
                        ELSE <<>>)
    /\ pc' = "explained"
    /\ UNCHANGED <<cache, fetched, models, answers, inputs, input_data, scoring,
                   probabilities, top, predict_button, reruns, shapvars>>

\* the summary expander closing the predict branch
MainSummary ==
    /\ pc = "explained"
    /\ screen' = Append(screen, Element("json", "summary", 0))
    /\ pc' = "done"
    /\ UNCHANGED <<cache, fetched, models, answers, inputs, input_data, scoring,
                   probabilities, top, figs, predict_button, reruns,
                   shap_model, shapvars>>

\* a widget interaction, a press of the predict button or a page reload:
\* Streamlit runs the script again from the top, in the same process. The run
\* in progress, if any, is ended at the st.* call it has reached (the runtime
\* raises its control exception there, which the script does not handle), so
\* the new run can start from any position of the old one.
UserInteracts ==
    /\ reruns < MaxReruns
    /\ \E a \in PipelineAnswers, b \in BOOLEAN :
          /\ answers' = a
          /\ predict_button' = b
    /\ pc' = "start"
    /\ models' = None
    /\ screen' = <<>>
    /\ inputs' = <<>>
    /\ input_data' = <<>>
    /\ scoring' = NoScoring
    /\ probabilities' = <<>>
    /\ top' = NoTop
    /\ figs' = NoFigs
    /\ reruns' = reruns + 1
    /\ shap_model' = NoModel
    /\ UNCHANGED <<cache, fetched, shapvars>>

\* the same while the body of load_models runs: the run is ended at an
\* st.error inside load_models, after the downloads made so far and before
\* anything is returned, so nothing is cached and the next run loads again
MainLoadInterrupted ==
    /\ pc = "start"
    /\ ~CacheHit
    /\ reruns < MaxReruns
    /\ reruns <= MaxInterruptedLoads
    /\ \E auth \in AuthOutcomes, outcome \in [Labels -> ArtifactOutcomes] :
          LET r == load_models(auth, outcome)
          IN  /\ r.errors # <<>>
              /\ fetched' = fetched \o r.fetched
    /\ \E a \in PipelineAnswers, b \in BOOLEAN :
          /\ answers' = a
          /\ predict_button' = b
    /\ pc' = "start"
    /\ reruns' = reruns + 1
    /\ UNCHANGED <<cache, models, screen, inputs, input_data, scoring,
                   probabilities, top, figs, shap_model, shapvars>>

Next ==
    \/ MainLoadMiss
    \/ MainLoadHit
    \/ MainStop
    \/ MainInputs
    \/ MainVector
    \/ MainNoPredict
    \/ MainPredict
    \/ MainTop
    \/ MainExplain
    \/ MainSummary
    \/ UserInteracts
    \/ MainLoadInterrupted

Spec == Init /\ [][Next]_vars

\* the form alone: the script has loaded the five models and is about to
\* build the form from any of the widget states FormAnswers
InitForm ==
    /\ cache = [filled |-> TRUE,
                value |-> Dict([i \in 1..Len(FILE_IDS) |->
                                    <<FILE_IDS[i], Model(FILE_IDS[i])>>]),
                elements |-> <<>>]
    /\ fetched = FILE_IDS
    /\ pc = "loaded"
    /\ models = cache.value
    /\ screen = <<Element("title", "app", 0)>>
    /\ answers \in FormAnswers
    /\ inputs = <<>>
    /\ input_data = <<>>
    /\ scoring = NoScoring
    /\ probabilities = <<>>
    /\ top = NoTop
    /\ figs = NoFigs
    /\ predict_button = FALSE
    /\ reruns = 1
    /\ shap_model = NoModel
    /\ ShapIdle

NextForm ==
    \/ MainInputs
    \/ MainVector

SpecForm == InitForm /\ [][NextForm]_vars

-----------------------------------------------------------------------------
(* The body of generate_shap_plot, step by step *)

\* input_df.values[0]: the values of the one input row, in column order
Values(d) == [i \in 1..Len(d) |-> d[i][2]]

\* the scorings explored here: every model scores, one of them highest
ShapScorings ==
    {[n \in Labels |-> [raises |-> FALSE, prob |-> IF n = best THEN 71 ELSE 20]] :
        best \in Labels}

\* main has shown the result section and the header of the explanation
\* section for the scenario answers, and calls
\* generate_shap_plot(models[top_disease], input_df, top_disease)
InitShap ==
    /\ cache = [filled |-> TRUE,
                value |-> Dict([i \in 1..Len(FILE_IDS) |->
                                    <<FILE_IDS[i], Model(FILE_IDS[i])>>]),
                elements |-> <<>>]
    /\ fetched = FILE_IDS
    /\ pc = "results"
    /\ models = cache.value
    /\ answers = ScenarioAnswers
    /\ inputs = create_sidebar_inputs(answers)
    /\ input_data = BuildInputData(inputs)
    /\ scoring \in ShapScorings
    /\ probabilities = predict_all_models(models, scoring).probabilities
    /\ top = get_top_prediction(probabilities)
    /\ screen = <<Element("title", "app", 0), Element("sidebar", "form", 0),
                  Element("header", "result", 0)>>
                \o (IF DictGet(inputs, "patient_name", "") # ""
                    THEN <<Element("markdown", "patient_name", 0)>> ELSE <<>>)
                \o <<Element("success", top.disease, 0),
                     Element("metric", "top_prob", top.prob)>>
                \o ProbabilityLines(SortedProbs(probabilities), top.disease)
                \o <<Element("header", "shap", 0)>>
    /\ figs = NoFigs
    /\ predict_button = TRUE
    /\ reruns = 2
    /\ shap_model = DictGet(models.items, top.disease, NoModel)
    /\ shap_pc = "called"
    /\ attribution = NoAttribution
    /\ shap_values = NoShapValues
    /\ expected_value = 0
    /\ sv = <<>>
    /\ base_value = 0
    /\ ranking = NoRanking

\* explainer = shap.TreeExplainer(model)
\* shap_values = explainer.shap_values(input_df)
ShapExplain ==
    /\ shap_pc = "called"
    /\ \E att \in Attributions :
          /\ attribution' = att
          /\ shap_values' = ExplainerShapValues(att)
          /\ expected_value' = ExplainerExpectedValue(att)
    /\ shap_pc' = "attributed"
    /\ UNCHANGED <<cache, fetched, pc, models, screen, answers, inputs,
                   input_data, scoring, probabilities, top, figs,
                   predict_button, reruns, shap_model, sv, base_value, ranking>>

\* the isinstance(shap_values, list) branch: sv and base_value
ShapSelect ==
    /\ shap_pc = "attributed"
    /\ LET r == SelectAttribution(shap_values, expected_value)
       IN  /\ sv' = r.sv
           /\ base_value' = r.base_value
    /\ shap_pc' = "selected"
    /\ UNCHANGED <<cache, fetched, pc, models, screen, answers, inputs,
                   input_data, scoring, probabilities, top, figs,
                   predict_button, reruns, shap_model, attribution,
                   shap_values, expected_value, ranking>>

\* feature_names, the top 10 of the waterfall chart, f_x, and the top 20 of
\* the bar chart; both argsort calls run in the same build on the same keys
ShapRank ==
    /\ shap_pc = "selected"
    /\ \E tie \in TieBreaks(AbsAll(sv)) :
          ranking' = Rankings(sv, base_value, Keys(input_data),
                              Values(input_data), tie)
    /\ shap_pc' = "ranked"
    /\ UNCHANGED <<cache, fetched, pc, models, screen, answers, inputs,
                   input_data, scoring, probabilities, top, figs,
                   predict_button, reruns, shap_model, attribution,
                   shap_values, expected_value, sv, base_value>>

NextShap ==
    \/ ShapExplain
    \/ ShapSelect
    \/ ShapRank

SpecShap == InitShap /\ [][NextShap]_vars


-----------------------------------------------------------------------------
(* Properties *)

\* the feature vector of the current rerun has been built
VectorBuilt == pc \notin {"start", "loaded", "inputs", "stopped"}

\* the value the feature vector holds for feature f
Feature(f) == input_data[CHOOSE i \in 1..Len(input_data) : input_data[i][1] = f][2]

\* the elements on the page
Shown == {screen[i] : i \in 1..Len(screen)}

\* predict_all_models has returned in the current rerun
Predicted == pc \in {"predicted", "results", "explained"} \/ (pc = "done" /\ predict_button)

\* get_top_prediction has returned in the current rerun
TopSelected == pc \in {"results", "explained"} \/ (pc = "done" /\ predict_button)

\* generate_shap_plot has returned in the current rerun
Explained == pc = "explained" \/ (pc = "done" /\ predict_button)

\* C1: whatever the form answers, the feature vector built in main has exactly
\* the names of INPUT_FEATURES as its keys, in INPUT_FEATURES order, no key
\* missing, none extra; the form's patient_name entry is not in it.
C1_VectorKeysAreSchema ==
    VectorBuilt =>
        /\ Keys(input_data) = INPUT_FEATURES
        /\ ~DictHas(input_data, "patient_name")

\* a vector built from a form that holds a patient name and 83 entries
C1_Witness ==
    /\ VectorBuilt
    /\ DictHas(inputs, "patient_name")
    /\ answers.patient_name = "Kim"
    /\ Len(inputs) = Len(INPUT_FEATURES) + 1

\* the features the form has no widget for
NeverAsked ==
    {other_history[i] : i \in 1..Len(other_history)}
        \cup {other_etc[i] : i \in 1..Len(other_etc)}

\* C2: the features the answer set does not cover (those the form never asks:
\* history_pul_tbc, history_asthma, etc_gn_right, etc_weber_left, ...) hold
\* the missing sentinel NaN in the feature vector, not 0.0.
C2_UncoveredAreMissing ==
    VectorBuilt => \A f \in NeverAsked : Feature(f) = NaN

\* C3: load_models is all-or-nothing: whatever the outcomes of the
\* authentication and of the five artifacts, what it returns (and what is
\* cached and handed to main) is None or a mapping with exactly the five labels
\* BPPV, VN, SSNHL, Meniere, Others; never a mapping with fewer models.
C3_LoadAllOrNothing ==
    /\ models = None \/ Keys(models.items) = FILE_IDS
    /\ cache.value = None \/ Keys(cache.value.items) = FILE_IDS

\* the load failed at the third artifact, after two models had been loaded
C3_Witness ==
    /\ cache.filled
    /\ cache.value = None
    /\ fetched = <<"BPPV", "VN", "SSNHL">>
    /\ pc = "loaded"

\* C4: the model load is cached for the process lifetime: once the first call
\* of load_models has completed, every later call returns the cached result,
\* no artifact is fetched again, and the cached model set is never replaced
\* or changed by a later rerun; main's models is always the cached value
\* (a call of load_models is the step from "start" to "loaded").
C4_LoadOnceCached ==
    /\ [](pc # "start" => models = cache.value)
    /\ [][cache.filled =>
            /\ cache' = cache
            /\ fetched' = fetched
            /\ (pc = "start" /\ pc' = "loaded" => models' = cache.value)]_vars

\* a later rerun that predicted with the models loaded by the first rerun
C4_Witness ==
    /\ reruns = MaxReruns
    /\ pc = "done"
    /\ predict_button
    /\ models # None
    /\ fetched = FILE_IDS

\* C5: predict_all_models degrades gracefully: whichever models' scoring
\* raises, the result has exactly one entry per model of the model set, 0.0
\* for each failing model and the positive-class probability for each other
\* model (those after a failing one included), and one error is reported for
\* each failing model.
C5_PredictDegradesGracefully ==
    Predicted =>
        /\ Keys(probabilities) = Keys(models.items)
        /\ \A i \in 1..Len(probabilities) :
              LET name == probabilities[i][1]
              IN  probabilities[i][2] =
                      IF scoring[name].raises THEN 0 ELSE scoring[name].prob
        /\ \A i \in 1..Len(models.items) :
              scoring[models.items[i][1]].raises
                  <=> Element("error", "model_predict", i) \in Shown

\* the second model failed and the models after it were scored
C5_Witness ==
    /\ Predicted
    /\ scoring["VN"].raises
    /\ ~scoring["SSNHL"].raises
    /\ DictGet(probabilities, "VN", -1) = 0
    /\ DictGet(probabilities, "SSNHL", -1) = 71
    /\ DictGet(probabilities, "Others", -1) = 20

\* C6: get_top_prediction returns one of the five disease labels, with the
\* probability the result holds for that label, which is greater than or equal
\* to every entry of the result.
C6_TopIsMaximum ==
    TopSelected =>
        /\ top.disease \in Labels
        /\ DictHas(probabilities, top.disease)
        /\ top.prob = DictGet(probabilities, top.disease, -1)
        /\ \A i \in 1..Len(probabilities) : probabilities[i][2] <= top.prob

\* the maximum is held by the third label alone
C6_Witness ==
    /\ TopSelected
    /\ top = [disease |-> "SSNHL", prob |-> 71]
    /\ DictGet(probabilities, "BPPV", -1) = 20
    /\ DictGet(probabilities, "Others", -1) = 0

\* C7: a fatal load error stops the rerun: when load_models returned None the
\* error is shown and the script ends before the form is built; no scoring, no
\* top-label selection and no explanation happen in that rerun.
C7_LoadErrorStopsRerun ==
    (pc # "start" /\ models = None) =>
        /\ pc \in {"loaded", "stopped"}
        /\ inputs = <<>>
        /\ input_data = <<>>
        /\ probabilities = <<>>
        /\ top = NoTop
        /\ figs = NoFigs
        /\ Element("sidebar", "form", 0) \notin Shown
        /\ pc = "stopped" =>
              screen[Len(screen)] = Element("error", "models_unavailable", 0)

\* a rerun stopped on the cached failure of an earlier rerun's load
C7_Witness ==
    /\ pc = "stopped"
    /\ reruns = MaxReruns
    /\ models = None
    /\ Len(fetched) = 2

\* C8: an explanation failure does not abort the prediction flow:
\* generate_shap_plot reports the error and returns (None, None); the page
\* still shows the top diagnosis and the five probabilities, goes on to the
\* input summary, and only the two attribution charts are left out.
C8_ExplanationFailureIsLocal ==
    (Explained /\ figs.fig_waterfall = "None") =>
        /\ figs.fig_bar = "None"
        /\ Element("error", "shap", 0) \in Shown
        /\ Element("success", top.disease, 0) \in Shown
        /\ \A n \in Labels :
              \E i \in 1..Len(screen) :
                  /\ screen[i][1] \in {"write", "write_top"}
                  /\ screen[i][2] = n
                  /\ screen[i][3] = DictGet(probabilities, n, -1)
        /\ \A i \in 1..Len(screen) : screen[i][1] # "image"
        /\ pc = "explained" => ENABLED MainSummary
        /\ pc = "done" => screen[Len(screen)] = Element("json", "summary", 0)

\* a rerun that ended with the summary after the explanation had failed
C8_Witness ==
    /\ pc = "done"
    /\ predict_button
    /\ figs = NoFigs
    /\ Element("error", "shap", 0) \in Shown
    /\ Element("json", "summary", 0) \in Shown

DurationIndicators == <<
    "symptoms_duration_minutes_cat_gen_is_several_sec",
    "symptoms_duration_minutes_cat_gen_is_several_min",
    "symptoms_duration_minutes_cat_gen_is_several_hours",
    "symptoms_duration_minutes_cat_gen_is_several_days" >>

Duration20mIndicators == <<
    "symptoms_duration_minutes_cat_20m_is_several_sec",
    "symptoms_duration_minutes_cat_20m_is_several_min",
    "symptoms_duration_minutes_cat_20m_is_several_hours",
    "symptoms_duration_minutes_cat_20m_is_several_days" >>

RemoteIndicators == <<
    "symptom_remote_cat_is_1st_attack",
    "symptom_remote_cat_is_within_30days",
    "symptom_remote_cat_is_within_1years",
    "symptom_remote_cat_is_over_1year" >>

\* exactly the n-th of the four indicators is 1.0 and the other three are 0.0
OneHotAt(indicators, n) ==
    /\ n \in 1..4
    /\ \A j \in 1..4 : Feature(indicators[j]) = (IF j = n THEN F(1) ELSE F(0))

\* C9: in every feature vector, for the duration bucket (codes 1..4) and for
\* the past-onset bucket (codes 0..3), exactly one of the four derived
\* indicators is 1.0, the other three are 0.0, and the one that is 1.0 is the
\* one of the selection's ordinal code.
C9_IndicatorsAreOneHot ==
    VectorBuilt =>
        /\ \E c \in 1..4 :
              /\ Feature("symptoms_duration_minutes_cat_gen") = F(c)
              /\ OneHotAt(DurationIndicators, c)
        /\ \E c \in 0..3 :
              /\ Feature("symptom_remote_cat") = F(c)
              /\ OneHotAt(RemoteIndicators, c + 1)

\* a vector for the third duration bucket and the third past-onset bucket
C9_Witness ==
    /\ VectorBuilt
    /\ answers.duration = "several_hours"
    /\ answers.remote = "within_1years"
    /\ Feature("symptoms_duration_minutes_cat_gen_is_several_hours") = F(1)
    /\ Feature("symptom_remote_cat_is_within_1years") = F(1)

\* C10: in every feature vector the cat_20m duration code and its four
\* indicators equal the cat_gen code and indicators, and
\* symptoms_agg_factor_position_change_combined equals
\* symptoms_agg_factor_position_change.
C10_AliasesInLockstep ==
    VectorBuilt =>
        /\ Feature("symptoms_duration_minutes_cat_20m")
              = Feature("symptoms_duration_minutes_cat_gen")
        /\ \A j \in 1..4 :
              Feature(Duration20mIndicators[j]) = Feature(DurationIndicators[j])
        /\ Feature("symptoms_agg_factor_position_change_combined")
              = Feature("symptoms_agg_factor_position_change")

\* a vector with the position-change box ticked and head-rotation unticked
C10_Witness ==
    /\ VectorBuilt
    /\ answers.checked = {"agg_position"}
    /\ Feature("symptoms_agg_factor_position_change_combined") = F(1)
    /\ Feature("symptoms_agg_factor_head_rotation") = F(0)

\* the history_* and etc_* features: a contiguous run of the schema
HistoryAndExamFeatures == {INPUT_FEATURES[i] : i \in 37..80}

\* C11: for the answer set {age 45, female, true vertigo, duration "several
\* minutes", recurrence, everything else unanswered} the feature vector has
\* age = 45, sex = 1, symptoms_true_vertigo = 1.0, cat_gen = 2.0,
\* cat_gen_is_several_min = 1.0, every other duration-bucket indicator 0.0,
\* and every history and etc field at the missing sentinel NaN.
C11_ScenarioVector ==
    (VectorBuilt /\ answers = ScenarioAnswers) =>
        /\ Feature("age") = F(45)
        /\ Feature("sex") = F(1)
        /\ Feature("symptoms_true_vertigo") = F(1)
        /\ Feature("symptoms_duration_minutes_cat_gen") = F(2)
        /\ OneHotAt(DurationIndicators, 2)
        /\ OneHotAt(Duration20mIndicators, 2)
        /\ \A f \in HistoryAndExamFeatures : Feature(f) = NaN

\* the part of the scenario the program does produce: the same values, with
\* every history and etc field at 0.0
C11_ScenarioVectorAsBuilt ==
    (VectorBuilt /\ answers = ScenarioAnswers) =>
        /\ Feature("age") = F(45)
        /\ Feature("sex") = F(1)
        /\ Feature("symptoms_true_vertigo") = F(1)
        /\ Feature("symptoms_duration_minutes_cat_gen") = F(2)
        /\ OneHotAt(DurationIndicators, 2)
        /\ OneHotAt(Duration20mIndicators, 2)
        /\ \A f \in HistoryAndExamFeatures : Feature(f) = F(0)

\* position of a label in the fixed label order BPPV, VN, SSNHL, Meniere, Others
LabelIndex(name) == CHOOSE i \in 1..Len(FILE_IDS) : FILE_IDS[i] = name

\* every model's predict_proba raised in this rerun
AllScoringFailed == \A n \in Labels : scoring[n].raises

\* C14: the tie-break of get_top_prediction is deterministic: the
\* probabilities are listed in the fixed label order BPPV, VN, SSNHL, Meniere,
\* Others, and among the labels that share the maximum the one returned is
\* the first in that order (every label before it is strictly below it); when
\* every model's scoring fails, all entries are 0.0, (BPPV, 0.0) is returned
\* and the explanation is computed for the BPPV model.
C14_TieBreakFirstInLabelOrder ==
    /\ TopSelected =>
          /\ Keys(probabilities) = FILE_IDS
          /\ probabilities[LabelIndex(top.disease)] = <<top.disease, top.prob>>
          /\ \A j \in 1..(LabelIndex(top.disease) - 1) :
                 probabilities[j][2] < top.prob
          /\ AllScoringFailed =>
                 /\ \A i \in 1..Len(probabilities) : probabilities[i][2] = 0
                 /\ top = [disease |-> "BPPV", prob |-> 0]
    /\ Explained => shap_model = DictGet(models.items, top.disease, NoModel)
    /\ (Explained /\ AllScoringFailed) => shap_model = Model("BPPV")

\* every model failed to score, BPPV was returned with 0.0 and explained
C14_Witness ==
    /\ Explained
    /\ AllScoringFailed
    /\ top = [disease |-> "BPPV", prob |-> 0]
    /\ shap_model = Model("BPPV")

\* two working models share the maximum; the earlier label was returned
C14_WitnessTie ==
    /\ TopSelected
    /\ ~scoring["VN"].raises
    /\ top = [disease |-> "VN", prob |-> 71]
    /\ \E j \in 3..5 : probabilities[j][2] = 71

\* the branch of generate_shap_plot has chosen sv and base_value
Selected == shap_pc \in {"selected", "ranked"}

\* generate_shap_plot has computed both rankings
Ranked == shap_pc = "ranked"

\* C12: generate_shap_plot handles both attribution shapes: from a pair of
\* arrays (negative class, positive class) it takes the positive-class array
\* and the positive-class baseline, from a single array that array and the
\* single baseline; in both cases sv is the flat per-feature vector of the one
\* input row (one value per feature), and the values used afterwards (the
\* signed top values and f_x) are taken from it.
C12_BothAttributionShapes ==
    /\ Selected =>
          /\ Len(sv) = Len(INPUT_FEATURES)
          /\ sv = attribution.row
          /\ base_value = attribution.baseline
          /\ shap_values.is_list =>
                /\ Len(shap_values.value) = 2
                /\ sv = shap_values.value[2][1]
                /\ base_value = expected_value[2]
          /\ ~shap_values.is_list =>
                /\ sv = shap_values.value[1]
                /\ base_value = expected_value
    /\ Ranked =>
          /\ \A r \in 1..Len(ranking.sorted_idx) :
                ranking.top_values[r] = attribution.row[ranking.sorted_idx[r]]
          /\ ranking.f_x = attribution.baseline + SumSeq(attribution.row)

\* a pair of arrays was returned; the positive-class row and baseline were
\* taken, and they differ from the negative-class ones
C12_Witness ==
    /\ Ranked
    /\ shap_values.is_list
    /\ sv = attribution.row
    /\ sv # shap_values.value[1][1]
    /\ base_value = 4
    /\ expected_value = <<-4, 4>>

\* a single array was returned
C12_WitnessArray ==
    /\ Ranked
    /\ ~shap_values.is_list
    /\ sv = shap_values.value[1]
    /\ base_value = -3

\* the features (indices) a ranking lists
Listed(idx) == {idx[r] : r \in 1..Len(idx)}

\* idx lists k distinct features of values in non-increasing absolute value,
\* each at least as large in absolute value as every feature it leaves out
RanksByMagnitude(idx, values, k) ==
    /\ Len(idx) = (IF k < Len(values) THEN k ELSE Len(values))
    /\ Listed(idx) \subseteq 1..Len(values)
    /\ Cardinality(Listed(idx)) = Len(idx)
    /\ \A r \in 1..(Len(idx) - 1) :
          Abs(values[idx[r]]) >= Abs(values[idx[r + 1]])
    /\ \A i \in Listed(idx) : \A j \in (1..Len(values)) \ Listed(idx) :
          Abs(values[i]) >= Abs(values[j])

\* C13: both rankings are taken from the same single-instance attribution
\* vector sv, ordered by absolute magnitude: the first lists min(10, n)
\* features and the second min(20, n), each in non-increasing absolute
\* attribution with every listed feature at least as large as every unlisted
\* one; the first keeps the signed values (with the names and input values of
\* the same features), the second the absolute values; and the first ranking
\* is a prefix of the second.
C13_RankingsByMagnitude ==
    Ranked =>
        /\ RanksByMagnitude(ranking.sorted_idx, sv, 10)
        /\ RanksByMagnitude(ranking.sorted_idx_20, sv, 20)
        /\ Len(ranking.top_features) = Len(ranking.sorted_idx)
        /\ Len(ranking.top_values) = Len(ranking.sorted_idx)
        /\ Len(ranking.top_data) = Len(ranking.sorted_idx)
        /\ \A r \in 1..Len(ranking.sorted_idx) :
              /\ ranking.top_features[r] = INPUT_FEATURES[ranking.sorted_idx[r]]
              /\ ranking.top_values[r] = sv[ranking.sorted_idx[r]]
              /\ ranking.top_data[r] = input_data[ranking.sorted_idx[r]][2]
        /\ Len(ranking.top_features_20) = Len(ranking.sorted_idx_20)
        /\ Len(ranking.abs_values_20) = Len(ranking.sorted_idx_20)
        /\ \A r \in 1..Len(ranking.sorted_idx_20) :
              /\ ranking.top_features_20[r] = INPUT_FEATURES[ranking.sorted_idx_20[r]]
              /\ ranking.abs_values_20[r] = Abs(sv[ranking.sorted_idx_20[r]])
        /\ SubSeq(ranking.sorted_idx_20, 1, Len(ranking.sorted_idx))
              = ranking.sorted_idx
        /\ SubSeq(ranking.top_features_20, 1, Len(ranking.top_features))
              = ranking.top_features

\* both rankings are full (10 and 20 of the 82 features), the first has a
\* negative and a positive signed value, its magnitudes are not all equal,
\* and its last place is tied with a feature it leaves out
C13_Witness ==
    /\ Ranked
    /\ Len(ranking.sorted_idx) = 10
    /\ Len(ranking.sorted_idx_20) = 20
    /\ \E r \in 1..10 : ranking.top_values[r] < 0
    /\ \E r \in 1..10 : ranking.top_values[r] > 0
    /\ Abs(ranking.top_values[1]) > Abs(ranking.top_values[10])
    /\ \E j \in (1..Len(sv)) \ Listed(ranking.sorted_idx) :
          Abs(sv[j]) = Abs(ranking.top_values[10])

=============================================================================
